---- MODULE Spec2Model ----
(***************************************************************************)
(* Model of the YouTube chapter download backend.  The repository holds    *)
(* two variants of the same FastAPI service:                               *)
(*   "worker" : src/worker.py                                              *)
(*   "copy"   : src/unnamed/part_000 ("worker copy.py")                    *)
(* Three specifications share the module's variables:                      *)
(*   Spec         one POST /api/extract request, step by step, from the    *)
(*                metadata fetch to the response (both variants);          *)
(*   SpecServer   several extract requests served against the shared temp  *)
(*                root: the retention pruner, directory creation, writes;  *)
(*   SpecDownload GET /api/download/{temp_dir}/{filename} against a file   *)
(*                tree.                                                    *)
(***************************************************************************)
EXTENDS Integers, Sequences, FiniteSets, TLC

VARIABLES
  variant,       \* which of the two programs is deployed
  video,         \* what the metadata library returns for the URL (input)
  pc,            \* position of the extract handler
  chapters,      \* the handler's local `chapters`
  idx,           \* split_video_by_chapters: the loop's 1-based index i
  output_files,  \* split_video_by_chapters: the local `output_files`
  log,           \* external calls made so far, in order
  status,        \* HTTP status of the response (0: none yet)
  response,      \* the "chapters" list of the 200 response
  platform,      \* what os.path.getctime returns: "posix" | "windows"
  clock,         \* filesystem time
  dirs,          \* job directories under temp/: id -> [born, ctime]
  reqs,          \* SpecServer: per request, its position and locals
  tree,          \* SpecDownload: files on disk, as paths from the cwd
  dl             \* SpecDownload: the last download request and its answer

pipeVars == <<video, pc, chapters, idx, output_files, log, status, response>>
serverVars == <<platform, clock, dirs, reqs>>
downloadVars == <<tree, dl>>
vars == <<variant, pipeVars, serverVars, downloadVars>>

Variants == {"worker", "copy"}

(***************************************************************************)
(* Bounds of the model.                                                    *)
(***************************************************************************)
MaxChapters == 2

\* start_time values of chapter markers (seconds)
Times == {0, 60, 120}

\* dict.get on a missing key / a missing "title" key
NoKey == "<no key>"
\* Optional[float]: None is <<>>, a value t is <<t>>
None == <<>>
Some(t) == <<t>>

Titles == {"Intro", NoKey}

\* A chapter marker as the metadata library returns it.
RawMarkers ==
  { [title |-> ti, start_time |-> s, end_time |-> e] :
      ti \in Titles, s \in Times, e \in {None, Some(180)} }

RECURSIVE SeqsUpTo(_, _)
SeqsUpTo(S, n) ==
  IF n = 0 THEN {<<>>}
  ELSE LET shorter == SeqsUpTo(S, n - 1)
       IN shorter \cup { Append(q, x) : q \in { r \in shorter : Len(r) = n - 1 }, x \in S }

\* info["chapters"]: the key missing, the value None, or a list of markers.
Videos ==
  { [chapters_kind |-> "absent", chapters |-> <<>>],
    [chapters_kind |-> "none", chapters |-> <<>>] }
  \cup { [chapters_kind |-> "list", chapters |-> q] : q \in SeqsUpTo(RawMarkers, MaxChapters) }

(***************************************************************************)
(* Pure helpers of the two programs.                                       *)
(***************************************************************************)

\* Python truthiness of an Optional[float]: None and 0 are falsy.
Truthy(opt) == opt # None /\ opt[1] # 0

\* get_chapters with the look-ahead test off by one (i + 1 < len - 1)
get_chapters_short(video_info) ==
  LET chs == video_info.chapters
  IN [ i \in 1..Len(chs) |->
         [ title |-> IF chs[i].title = NoKey THEN "Chapter " \o ToString(i) ELSE chs[i].title,
           start_time |-> chs[i].start_time,
           end_time |-> IF i + 1 < Len(chs) THEN Some(chs[i + 1].start_time) ELSE None ] ]

\* part_000:38-50
get_chapters(video_info) ==
  LET chs == video_info.chapters
  IN [ i \in 1..Len(chs) |->
         [ title |-> IF chs[i].title = NoKey THEN "Chapter " \o ToString(i) ELSE chs[i].title,
           start_time |-> chs[i].start_time,
           end_time |-> IF i + 1 <= Len(chs) THEN Some(chs[i + 1].start_time) ELSE None ] ]

\* A rendered duration: the text "Unknown", or hours/minutes/seconds.
Unknown == [text |-> "Unknown"]
Hms(h, m, s) == [text |-> "h:m:s", h |-> h, m |-> m, s |-> s]

\* part_000:55-59: str(timedelta(seconds=int(end - start)))
get_duration_copy(start, end) ==
  IF end = None THEN Unknown
  ELSE LET d == end[1] - start
       IN IF d >= 0 THEN Hms(d \div 3600, (d % 3600) \div 60, d % 60)
          ELSE [text |-> "-1 day, h:m:s", h |-> (d % 86400) \div 3600,
                m |-> (d % 3600) \div 60, s |-> d % 60]

\* worker.py:123-129: None - float raises TypeError
get_duration_worker(start, end) ==
  IF end = None THEN [text |-> "TypeError"]
  ELSE LET d == end[1] - start
       IN Hms(d \div 3600, (d % 3600) \div 60, d % 60)

\* f"{i}_{clean_title}.mp4" in output_dir; the title is kept opaque.
ClipName(i, title, ext) == [index |-> i, title |-> title, ext |-> ext]

\* the file name as text, as it is passed on the command line
PathStr(path) == ToString(path.index) \o "_" \o path.title \o "." \o path.ext

\* chapter.get('title', f'Chapter {i}')
TitleOf(chapter, i) ==
  IF chapter.title = NoKey THEN "Chapter " \o ToString(i) ELSE chapter.title

\* part_000:73-82: the trim command line
cmd_mp4(chapter, i) ==
  <<"ffmpeg", "-y", "-i", "full_video", "-ss", ToString(chapter.start_time),
    "-c", "copy", "-avoid_negative_ts", "1">>
  \o (IF Truthy(chapter.end_time) THEN <<"-to", ToString(chapter.end_time[1])>> ELSE <<>>)
  \o <<PathStr(ClipName(i, TitleOf(chapter, i), "mp4"))>>

\* worker.py:145-154: '-to' stays in the list; only its missing value is
\* filtered out.
cmd_worker(chapter, i) ==
  <<"ffmpeg", "-i", "full_video", "-ss", ToString(chapter.start_time), "-to">>
  \o (IF Truthy(chapter.end_time) THEN <<ToString(chapter.end_time[1])>> ELSE <<>>)
  \o <<"-c", "copy", "-avoid_negative_ts", "1", PathStr(ClipName(i, TitleOf(chapter, i), "mp4"))>>

\* os.path.getsize of a produced clip: a value of the file system, tagged by
\* the file it was read from.
get_file_size(path) == [size_of |-> path]

\* An event of the log: an external call (with its arguments and whether it
\* succeeded), a stage reached, or an exception raised.
Ev(name, i, cmd, ok) == [ev |-> name, i |-> i, cmd |-> cmd, ok |-> ok]

\* except Exception as e: raise HTTPException(status_code=500, detail=str(e))
\* (worker.py:233-234, part_000:147-148).  HTTPException is an Exception, so
\* the handler's own 400 is caught here as well.
except_Exception(exc) == 500

\* Idle values of the variables a specification does not use.
IdlePipe ==
  /\ video = [chapters_kind |-> "absent", chapters |-> <<>>]
  /\ pc = "idle"
  /\ chapters = [kind |-> "unset", list |-> <<>>]
  /\ idx = 0
  /\ output_files = <<>>
  /\ log = <<>>
  /\ status = 0
  /\ response = <<>>

IdleServer ==
  /\ platform = "posix"
  /\ clock = 0
  /\ dirs = {}
  /\ reqs = <<>>

IdleDownload ==
  /\ tree = {}
  /\ dl = [temp_dir |-> "", filename |-> "", status |-> 0, path |-> <<>>, media_type |-> ""]

(***************************************************************************)
(* Spec: one POST /api/extract request.                                    *)
(***************************************************************************)
Init ==
  /\ variant \in Variants
  /\ video \in Videos
  /\ pc = "start"
  /\ chapters = [kind |-> "unset", list |-> <<>>]
  /\ idx = 0
  /\ output_files = <<>>
  /\ log = <<>>
  /\ status = 0
  /\ response = <<>>
  /\ IdleServer
  /\ IdleDownload

\* An exception leaves the try block: the handler answers with what the
\* except clause makes of it.
Raise(type, origin, code) ==
  /\ log' = Append(log, Ev("raise", idx, <<type, origin>>, FALSE))
  /\ status' = except_Exception(code)
  /\ pc' = "done"

Unused == UNCHANGED <<variant, video, serverVars, downloadVars>>


(***************************************************************************)
(* worker.py: api_extract_chapters                                         *)
(***************************************************************************)

\* worker.py:193-194: the job directory is made; no pruning is called
W_Start ==
  /\ variant = "worker" /\ pc = "start"
  /\ log' = Append(log, Ev("mkdir", 0, <<>>, TRUE))
  /\ pc' = "get_video_chapters"
  /\ UNCHANGED <<chapters, idx, output_files, status, response>>
  /\ Unused

\* worker.py:92-97 (and 77-89): info['chapters'] when the fetch succeeded and
\* the key is there, else None
get_video_chapters(info_ok) ==
  IF info_ok /\ video.chapters_kind = "list"
  THEN [kind |-> "list", list |-> video.chapters]
  ELSE [kind |-> "none", list |-> <<>>]

\* worker.py:198
W_GetVideoChapters ==
  /\ variant = "worker" /\ pc = "get_video_chapters"
  /\ \E ok \in BOOLEAN :
       /\ log' = Append(log, Ev("extract_info", 0, <<"download=False">>, ok))
       /\ chapters' = get_video_chapters(ok)
  /\ pc' = "validate"
  /\ UNCHANGED <<idx, output_files, status, response>>
  /\ Unused

\* the test `chapters is not None` in place of `not chapters`
W_ChaptersOk_any == chapters.kind = "list"

\* worker.py:199: `if not chapters` lets a non-empty list through only
W_ChaptersOk == chapters.kind = "list" /\ Len(chapters.list) > 0

\* worker.py:199-200
W_Validate ==
  /\ variant = "worker" /\ pc = "validate"
  /\ IF W_ChaptersOk
     THEN /\ log' = Append(log, Ev("validated", Len(chapters.list), <<>>, TRUE))
          /\ pc' = "get_video_info"
          /\ UNCHANGED status
     ELSE Raise("HTTPException", "validate", 400)
  /\ UNCHANGED <<chapters, idx, output_files, response>>
  /\ Unused

\* worker.py:202-207
W_GetVideoInfo ==
  /\ variant = "worker" /\ pc = "get_video_info"
  /\ \E ok \in BOOLEAN :
       IF ok
       THEN /\ log' = Append(log, Ev("extract_info", 0, <<"download=False">>, TRUE))
            /\ pc' = "download_video"
            /\ UNCHANGED status
       ELSE /\ log' = log \o << Ev("extract_info", 0, <<"download=False">>, FALSE),
                                Ev("raise", idx, <<"HTTPException", "get_video_info">>, FALSE) >>
            /\ status' = except_Exception(500)
            /\ pc' = "done"
  /\ UNCHANGED <<chapters, idx, output_files, response>>
  /\ Unused

\* worker.py:209-211 (and 100-114)
W_DownloadVideo ==
  /\ variant = "worker" /\ pc = "download_video"
  /\ \E ok \in BOOLEAN :
       IF ok
       THEN /\ log' = Append(log, Ev("extract_info", 0, <<"download=True">>, TRUE))
            /\ pc' = "split"
            /\ idx' = 1
            /\ UNCHANGED status
       ELSE /\ log' = log \o << Ev("extract_info", 0, <<"download=True">>, FALSE),
                                Ev("raise", idx, <<"HTTPException", "download_video">>, FALSE) >>
            /\ status' = except_Exception(500)
            /\ pc' = "done"
            /\ UNCHANGED idx
  /\ UNCHANGED <<chapters, output_files, response>>
  /\ Unused

\* worker.py:136-166: one turn of the loop of split_video_by_chapters
W_Trim ==
  /\ variant = "worker" /\ pc = "split" /\ idx <= Len(chapters.list)
  /\ LET chapter == chapters.list[idx]
         cmd == cmd_worker(chapter, idx)
         output_path == ClipName(idx, TitleOf(chapter, idx), "mp4")
         duration == get_duration_worker(chapter.start_time, chapter.end_time)
     IN \E ok \in BOOLEAN :
          IF ~ok
          THEN \* except subprocess.CalledProcessError: print; next chapter
               /\ log' = Append(log, Ev("trim", idx, cmd, FALSE))
               /\ idx' = idx + 1
               /\ UNCHANGED <<pc, output_files, status>>
          ELSE IF duration.text = "TypeError"
          THEN \* not a CalledProcessError: leaves the function
               /\ log' = log \o << Ev("trim", idx, cmd, TRUE),
                                   Ev("raise", idx, <<"TypeError", "get_duration">>, FALSE) >>
               /\ status' = except_Exception(500)
               /\ pc' = "done"
               /\ UNCHANGED <<idx, output_files>>
          ELSE /\ log' = Append(log, Ev("trim", idx, cmd, TRUE))
               /\ output_files' = Append(output_files,
                                         [path |-> output_path,
                                          size |-> get_file_size(output_path),
                                          duration |-> duration])
               /\ idx' = idx + 1
               /\ UNCHANGED <<pc, status>>
  /\ UNCHANGED <<chapters, response>>
  /\ Unused

Min(a, b) == IF a <= b THEN a ELSE b

\* worker.py:219-230: zip(chapters, chapter_files) pairs by position
W_ResponseChapters ==
  [ k \in 1..Min(Len(chapters.list), Len(output_files)) |->
      LET chapter == chapters.list[k]
          file == output_files[k]
      IN [ title |-> chapter.title,
           start_time |-> chapter.start_time,
           end_time |-> chapter.end_time,
           size |-> file.size,
           duration |-> file.duration,
           mp4_download_url |-> file.path,
           mp3_download_url |-> [file.path EXCEPT !.ext = "mp3"] ] ]

\* worker.py:213-231
W_Respond ==
  /\ variant = "worker" /\ pc = "split" /\ idx > Len(chapters.list)
  /\ IF \E k \in 1..Min(Len(chapters.list), Len(output_files)) : chapters.list[k].title = NoKey
     THEN \* chapter["title"]: KeyError
          /\ Raise("KeyError", "respond", 500)
          /\ UNCHANGED response
     ELSE /\ log' = Append(log, Ev("respond", 0, <<>>, TRUE))
          /\ response' = W_ResponseChapters
          /\ status' = 200
          /\ pc' = "done"
  /\ UNCHANGED <<chapters, idx, output_files>>
  /\ Unused


(***************************************************************************)
(* part_000 ("worker copy.py"): extract                                    *)
(***************************************************************************)

\* part_000:107-112: clean_temp_directory(), then the job directory (the
\* pruner itself is modelled in SpecServer)
C_Start ==
  /\ variant = "copy" /\ pc = "start"
  /\ log' = log \o << Ev("clean", 0, <<>>, TRUE), Ev("mkdir", 0, <<>>, TRUE) >>
  /\ pc' = "extract_info"
  /\ UNCHANGED <<chapters, idx, output_files, status, response>>
  /\ Unused

\* part_000:127-128: metadata and the full download in one call
C_ExtractInfo ==
  /\ variant = "copy" /\ pc = "extract_info"
  /\ \E ok \in BOOLEAN :
       IF ok
       THEN /\ log' = Append(log, Ev("extract_info", 0, <<"download=True">>, TRUE))
            /\ pc' = "get_chapters"
            /\ UNCHANGED status
       ELSE /\ log' = log \o << Ev("extract_info", 0, <<"download=True">>, FALSE),
                                Ev("raise", idx, <<"DownloadError", "extract_info">>, FALSE) >>
            /\ status' = except_Exception(500)
            /\ pc' = "done"
  /\ UNCHANGED <<chapters, idx, output_files, response>>
  /\ Unused

\* part_000:129 (and 39-41): a "chapters" key holding None is not iterable
C_GetChapters ==
  /\ variant = "copy" /\ pc = "get_chapters"
  /\ IF video.chapters_kind = "none"
     THEN /\ Raise("TypeError", "get_chapters", 500)
          /\ UNCHANGED chapters
     ELSE /\ chapters' = [kind |-> "list", list |-> get_chapters(video)]
          /\ pc' = "validate"
          /\ UNCHANGED <<log, status>>
  /\ UNCHANGED <<idx, output_files, response>>
  /\ Unused

\* part_000:131-132
C_Validate ==
  /\ variant = "copy" /\ pc = "validate"
  /\ IF Len(chapters.list) > 0
     THEN /\ log' = Append(log, Ev("validated", Len(chapters.list), <<>>, TRUE))
          /\ pc' = "split"
          /\ idx' = 1
          /\ UNCHANGED status
     ELSE /\ Raise("HTTPException", "validate", 400)
          /\ UNCHANGED idx
  /\ UNCHANGED <<chapters, output_files, response>>
  /\ Unused

\* part_000:64-88 with the `continue` of the except clause left out
C_Trim_no_continue ==
  /\ variant = "copy" /\ pc = "split" /\ idx <= Len(chapters.list)
  /\ \E ok \in BOOLEAN :
       /\ log' = Append(log, Ev("trim", idx, cmd_mp4(chapters.list[idx], idx), ok))
       /\ pc' = "mp3"
       /\ UNCHANGED idx
  /\ UNCHANGED <<chapters, output_files, status, response>>
  /\ Unused

\* part_000:64-88: the trim of chapter idx
C_Trim ==
  /\ variant = "copy" /\ pc = "split" /\ idx <= Len(chapters.list)
  /\ \E ok \in BOOLEAN :
       /\ log' = Append(log, Ev("trim", idx, cmd_mp4(chapters.list[idx], idx), ok))
       /\ IF ok
          THEN pc' = "mp3" /\ UNCHANGED idx
          ELSE \* except CalledProcessError: print; continue
               pc' = "split" /\ idx' = idx + 1
  /\ UNCHANGED <<chapters, output_files, status, response>>
  /\ Unused

\* part_000:90-101: the audio transcode, then the artifact is recorded
\* whether or not the transcode succeeded
C_Mp3 ==
  /\ variant = "copy" /\ pc = "mp3"
  /\ LET chapter == chapters.list[idx]
         mp4_output_path == ClipName(idx, TitleOf(chapter, idx), "mp4")
         mp3_output_path == ClipName(idx, TitleOf(chapter, idx), "mp3")
     IN /\ \E ok \in BOOLEAN :
             log' = Append(log, Ev("mp3", idx, <<PathStr(mp4_output_path)>>, ok))
        /\ output_files' = Append(output_files,
                                  [path |-> mp4_output_path,
                                   size |-> get_file_size(mp4_output_path),
                                   duration |-> get_duration_copy(chapter.start_time, chapter.end_time),
                                   mp4_download_url |-> mp4_output_path,
                                   mp3_download_url |-> mp3_output_path])
  /\ idx' = idx + 1
  /\ pc' = "split"
  /\ UNCHANGED <<chapters, status, response>>
  /\ Unused

\* part_000:136-139: curl runs only for a thumbnail URL, with check=True
C_Thumbnail ==
  /\ variant = "copy" /\ pc = "split" /\ idx > Len(chapters.list)
  /\ \E thumbnail_url \in {"", "https://i/thumb.jpg"} :
       IF thumbnail_url = ""
       THEN pc' = "respond" /\ UNCHANGED <<log, status>>
       ELSE \E ok \in BOOLEAN :
              IF ok
              THEN /\ log' = Append(log, Ev("curl", 0, <<thumbnail_url>>, TRUE))
                   /\ pc' = "respond"
                   /\ UNCHANGED status
              ELSE /\ log' = log \o << Ev("curl", 0, <<thumbnail_url>>, FALSE),
                                       Ev("raise", idx, <<"CalledProcessError", "curl">>, FALSE) >>
                   /\ status' = except_Exception(500)
                   /\ pc' = "done"
  /\ UNCHANGED <<chapters, idx, output_files, response>>
  /\ Unused

\* part_000:141-146
C_Respond ==
  /\ variant = "copy" /\ pc = "respond"
  /\ log' = Append(log, Ev("respond", 0, <<>>, TRUE))
  /\ response' = output_files
  /\ status' = 200
  /\ pc' = "done"
  /\ UNCHANGED <<chapters, idx, output_files>>
  /\ Unused

Next ==
  \/ W_Start \/ W_GetVideoChapters \/ W_Validate \/ W_GetVideoInfo
  \/ W_DownloadVideo \/ W_Trim \/ W_Respond
  \/ C_Start \/ C_ExtractInfo \/ C_GetChapters \/ C_Validate
  \/ C_Trim \/ C_Mp3 \/ C_Thumbnail \/ C_Respond

Spec == Init /\ [][Next]_vars


(***************************************************************************)
(* Properties of one extract request (checked under Spec).                 *)
(***************************************************************************)

\* The metadata of the URL holds no chapter marker.
ZeroMarkers == video.chapters_kind # "list" \/ Len(video.chapters) = 0

\* The first call of the metadata library succeeded.
MetadataFetched ==
  \E k \in DOMAIN log :
    /\ log[k].ev = "extract_info" /\ log[k].ok
    /\ \A j \in 1..(k - 1) : log[j].ev # "extract_info"

IsDownload(e) == e.ev = "extract_info" /\ e.cmd = <<"download=True">>
IsDownloadedOk(e) == IsDownload(e) /\ e.ok

\* C1: a request whose metadata was fetched and holds zero chapter markers
\* ends with status 400, and no clip is cut for it.
C1_ZeroMarkersGive400 ==
  (pc = "done" /\ MetadataFetched /\ ZeroMarkers) =>
     /\ status = 400
     /\ \A k \in DOMAIN log : log[k].ev # "trim"

StrictlyIncreasing(q) ==
  \A i \in 1..(Len(q) - 1) : q[i].start_time < q[i + 1].start_time

\* C2: for k >= 1 markers with strictly increasing start_times, get_chapters
\* returns k chapters in the same order, each starting at its marker's
\* start_time and ending at the next chapter's start_time, the last one open.
C2_ChaptersContiguous ==
  ( /\ variant = "copy" /\ chapters.kind = "list"
    /\ video.chapters_kind = "list" /\ Len(video.chapters) >= 1
    /\ StrictlyIncreasing(video.chapters) ) =>
     LET k == Len(video.chapters)
         c == chapters.list
     IN /\ Len(c) = k
        /\ \A i \in 1..k : c[i].start_time = video.chapters[i].start_time
        /\ \A i \in 1..(k - 1) : c[i].end_time = Some(c[i + 1].start_time)
        /\ c[k].end_time = None

C2_Witness ==
  /\ variant = "copy" /\ chapters.kind = "list"
  /\ video.chapters_kind = "list" /\ Len(video.chapters) >= 2
  /\ StrictlyIncreasing(video.chapters)

\* C5 as stated: in each variant a download of the source media comes after
\* the validation of at least one chapter marker, and a request with zero
\* markers never downloads.
C5_DownloadOnlyAfterValidation ==
  /\ \A k \in DOMAIN log :
       IsDownloadedOk(log[k]) =>
         \E j \in 1..(k - 1) : log[j].ev = "validated" /\ log[j].i >= 1
  /\ ZeroMarkers => \A k \in DOMAIN log : ~IsDownloadedOk(log[k])

\* Some event before the k-th of the log satisfies P.
Before(P(_), k) == \E j \in 1..(k - 1) : P(log[j])

IsValidated(e) == e.ev = "validated" /\ e.i >= 1
IsFetchedOk(e) == e.ev = "extract_info" /\ e.ok
IsRejected(e) == e.ev = "raise" /\ e.cmd = <<"HTTPException", "validate">>

\* C5 (amended): worker.py fetches metadata, validates, downloads, splits
\* and responds in that order and never downloads for zero markers; the copy
\* downloads within its one metadata call, before validation, then validates,
\* splits and responds, so a request it rejects for zero markers has
\* downloaded already.
C5_StageOrder ==
  /\ \A k \in DOMAIN log :
       /\ (log[k].ev = "validated") => (log[k].i >= 1 /\ Before(IsFetchedOk, k))
       /\ (log[k].ev = "trim") => (Before(IsValidated, k) /\ Before(IsDownloadedOk, k))
       /\ (log[k].ev = "respond") =>
             /\ Before(IsValidated, k) /\ Before(IsDownloadedOk, k)
             /\ \A j \in DOMAIN log : j <= k
       /\ (variant = "worker" /\ IsDownload(log[k])) => Before(IsValidated, k)
       /\ (variant = "copy" /\ (IsValidated(log[k]) \/ IsRejected(log[k]))) =>
             Before(IsDownloadedOk, k)
  /\ (variant = "worker" /\ ZeroMarkers) => \A k \in DOMAIN log : ~IsDownload(log[k])

C5_Witness ==
  /\ variant = "worker" /\ status = 200 /\ Len(response) >= 1
  /\ \E k \in DOMAIN log : IsDownloadedOk(log[k])

\* C6: after a failed trim of chapter i no artifact is recorded for i, no
\* audio transcode runs for i, the request goes on (it is not answered at
\* that point) and the next external call is the trim of chapter i+1 when
\* there is one.
C6_FailedTrimSkipsChapter ==
  \A k \in DOMAIN log :
    (log[k].ev = "trim" /\ ~log[k].ok) =>
       LET i == log[k].i
       IN /\ \A f \in DOMAIN output_files : output_files[f].path.index # i
          /\ \A j \in DOMAIN log : ~(log[j].ev = "mp3" /\ log[j].i = i)
          /\ (k = Len(log)) => (status = 0 /\ pc \in {"split", "respond"} /\ idx = i + 1)
          /\ (k < Len(log) /\ i < Len(chapters.list)) =>
                (log[k + 1].ev = "trim" /\ log[k + 1].i = i + 1)
          /\ (k < Len(log) /\ i = Len(chapters.list)) =>
                log[k + 1].ev \in {"curl", "respond", "raise"}

C6_Witness ==
  /\ status = 200
  /\ \E k \in DOMAIN log :
       /\ log[k].ev = "trim" /\ ~log[k].ok /\ log[k].i = 1
       /\ \E j \in DOMAIN log : j > k /\ log[j].ev = "trim" /\ log[j].i = 2 /\ log[j].ok
  /\ Len(output_files) = 1

InSeq(x, q) == \E n \in DOMAIN q : q[n] = x

\* C7: the trim of a chapter with no end_time is invoked without an end
\* bound; when it succeeds the chapter gets an artifact whose duration is
\* "Unknown"; no exception leaves the chapter loop because of the open end.
C7_OpenEndedChapter ==
  \A k \in DOMAIN log :
    (log[k].ev = "trim" /\ chapters.list[log[k].i].end_time = None) =>
       LET i == log[k].i
       IN /\ ~InSeq("-to", log[k].cmd)
          /\ (log[k].ok /\ (idx > i \/ pc = "done")) =>
                \E f \in DOMAIN output_files :
                   /\ output_files[f].path.index = i
                   /\ output_files[f].duration = Unknown
          /\ \A j \in DOMAIN log :
                ~(log[j].ev = "raise" /\ log[j].i = i /\ log[j].cmd[2] = "get_duration")

\* C10: every entry of the worker's response carries the title, start_time
\* and end_time of the chapter whose clip its download URLs name, and the
\* duration of that chapter.
C10_ResponsePairsChapterWithItsClip ==
  (variant = "worker" /\ status = 200) =>
     \A k \in DOMAIN response :
        LET e == response[k]
            p == e.mp4_download_url.index
        IN /\ p \in DOMAIN chapters.list
           /\ e.title = chapters.list[p].title
           /\ e.start_time = chapters.list[p].start_time
           /\ e.end_time = chapters.list[p].end_time
           /\ e.mp3_download_url.index = p
           /\ e.duration = get_duration_worker(chapters.list[p].start_time, chapters.list[p].end_time)


(***************************************************************************)
(* SpecServer: extract requests against the shared temp root.              *)
(*                                                                         *)
(* Each request is a process; its steps are the file-system operations of  *)
(* the handler: the pruner's listing, each rmtree of the pruner's loop,    *)
(* the creation of the job directory, the writes of the download and of    *)
(* the clips into it, the response.  Nothing in either program serialises  *)
(* two handlers, so the steps of requests served by different workers      *)
(* interleave freely.  SpecSerial is the same system with one request      *)
(* served at a time.                                                       *)
(***************************************************************************)

\* number of extract requests
NReq == 3

\* the pruner's max_dirs (10 by default in part_000:30; the pruner is
\* parametric in it, and the model runs it with a small value)
MaxDirs == 1

Requests == 1..NReq

\* part_000:32: os.path.getctime is the creation time on Windows and the
\* time of the last inode change on POSIX, where creating a file in the
\* directory changes it.
getctime(d) == IF platform = "windows" THEN d.born ELSE d.ctime

\* the listing sorted by creation time proper
RECURSIVE SortByBorn(_)
SortByBorn(ds) ==
  IF ds = {} THEN <<>>
  ELSE LET first == CHOOSE d \in ds : \A e \in ds : d.born <= e.born
       IN <<first.id>> \o SortByBorn(ds \ {first})

\* part_000:31-32: the directories under temp/, oldest getctime first
RECURSIVE SortedFolders(_)
SortedFolders(ds) ==
  IF ds = {} THEN <<>>
  ELSE LET first == CHOOSE d \in ds : \A e \in ds : getctime(d) <= getctime(e)
       IN <<first.id>> \o SortedFolders(ds \ {first})

InitServer ==
  /\ variant \in Variants
  /\ platform \in {"posix", "windows"}
  /\ clock = 0
  /\ dirs = {}
  /\ reqs = [r \in Requests |->
               [pc |-> "start", folders |-> <<>>, listed |-> {}, listed_at |-> 0,
                removed |-> {}, status |-> 0]]
  /\ IdlePipe
  /\ IdleDownload

UnusedByServer == UNCHANGED <<variant, platform, pipeVars, downloadVars>>

\* part_000:31-32: clean_temp_directory lists and sorts
S_List(r) ==
  /\ variant = "copy" /\ reqs[r].pc = "start"
  /\ reqs' = [reqs EXCEPT ![r].pc = "prune",
                          ![r].folders = SortedFolders(dirs),
                          ![r].listed = dirs,
                          ![r].listed_at = clock]
  /\ UNCHANGED <<clock, dirs>>
  /\ UnusedByServer

\* part_000:34-36: one turn of the while loop; rmtree of a directory that is
\* gone raises FileNotFoundError, outside the handler's try block
S_Remove(r) ==
  /\ variant = "copy" /\ reqs[r].pc = "prune"
  /\ Len(reqs[r].folders) > MaxDirs
  /\ LET oldest == Head(reqs[r].folders)
     IN IF \E d \in dirs : d.id = oldest
        THEN /\ dirs' = { d \in dirs : d.id # oldest }
             /\ reqs' = [reqs EXCEPT ![r].folders = Tail(@),
                                     ![r].removed = @ \cup {oldest}]
        ELSE /\ reqs' = [reqs EXCEPT ![r].folders = Tail(@),
                                     ![r].pc = "done", ![r].status = 500]
             /\ UNCHANGED dirs
  /\ UNCHANGED clock
  /\ UnusedByServer

\* part_000:110-112 after the pruner returned; worker.py:193-194 at once
S_Mkdir(r) ==
  /\ \/ variant = "copy" /\ reqs[r].pc = "prune" /\ Len(reqs[r].folders) <= MaxDirs
     \/ variant = "worker" /\ reqs[r].pc = "start"
  /\ clock' = clock + 1
  /\ dirs' = dirs \cup {[id |-> r, born |-> clock + 1, ctime |-> clock + 1]}
  /\ reqs' = [reqs EXCEPT ![r].pc = "work"]
  /\ UnusedByServer

\* part_000:127-134, worker.py:209-213: the download and the clips are
\* written into the job directory; with the directory gone the external
\* tool fails and the request ends in the except clause
S_Write(r) ==
  /\ reqs[r].pc = "work"
  /\ IF \E d \in dirs : d.id = r
     THEN /\ clock' = clock + 1
          /\ dirs' = { IF d.id = r THEN [d EXCEPT !.ctime = clock + 1] ELSE d : d \in dirs }
          /\ reqs' = [reqs EXCEPT ![r].pc = "respond"]
     ELSE /\ reqs' = [reqs EXCEPT ![r].pc = "done", ![r].status = except_Exception(500)]
          /\ UNCHANGED <<clock, dirs>>
  /\ UnusedByServer

\* part_000:141-146, worker.py:216-231
S_Respond(r) ==
  /\ reqs[r].pc = "respond"
  /\ reqs' = [reqs EXCEPT ![r].pc = "done", ![r].status = 200]
  /\ UNCHANGED <<clock, dirs>>
  /\ UnusedByServer

NextServer ==
  \E r \in Requests :
    \/ S_List(r) \/ S_Remove(r) \/ S_Mkdir(r) \/ S_Write(r) \/ S_Respond(r)

SpecServer == InitServer /\ [][NextServer]_vars

\* No other request is being served.
Alone(r) == \A o \in Requests \ {r} : reqs[o].pc \in {"start", "done"}

NextSerial ==
  \E r \in Requests :
    \/ Alone(r) /\ S_List(r)
    \/ Alone(r) /\ S_Remove(r)
    \/ Alone(r) /\ S_Mkdir(r)
    \/ Alone(r) /\ S_Write(r)
    \/ Alone(r) /\ S_Respond(r)

SpecSerial == InitServer /\ [][NextSerial]_vars

\* Request r has created its job directory and has not answered yet.
InFlight(r) == reqs[r].pc \in {"work", "respond"}

\* The ids of the n oldest directories of ds by creation time.
OldestByBorn(ds, n) ==
  LET q == SortByBorn(ds) IN { q[k] : k \in 1..(IF n < Len(q) THEN n ELSE Len(q)) }

\* C3: a pruner call that listed M directories removed exactly the M - N
\* least recently created ones when M > N, and none otherwise.
C3_PrunerKeepsNewestCreated ==
  \A r \in Requests :
    (reqs[r].pc \in {"work", "respond"} \/ (reqs[r].pc = "done" /\ reqs[r].status = 200)
     \/ (reqs[r].pc = "prune" /\ Len(reqs[r].folders) <= MaxDirs)) =>
       LET M == Cardinality(reqs[r].listed)
       IN IF variant = "copy" /\ M > MaxDirs
          THEN reqs[r].removed = OldestByBorn(reqs[r].listed, M - MaxDirs)
          ELSE reqs[r].removed = {}

\* C4: the job directory of a request in flight exists.
C4_InFlightDirectoryKept ==
  \A r \in Requests : InFlight(r) => \E d \in dirs : d.id = r

\* C4, second half: no job directory is created while another request is
\* between its pruner's listing and the end of its pruner's loop.
C4_NoCreationDuringPrune ==
  \A r \in Requests :
    reqs[r].pc = "prune" => \A d \in dirs : d.born <= reqs[r].listed_at

\* C9: with requests served one at a time, the temp root never holds more
\* than max_dirs + 1 job directories.
C9_DirectoriesBounded == Cardinality(dirs) <= MaxDirs + 1


(***************************************************************************)
(* SpecDownload: GET /api/download/{temp_dir}/{filename}                   *)
(***************************************************************************)

\* A path is the sequence of its components from the working directory of
\* the process; TEMP_DIR = "temp" is relative to it (part_000:24).
File(path) == [path |-> path, dir |-> FALSE]
Dir(path) == [path |-> path, dir |-> TRUE]

\* What may lie on disk besides temp/ itself: job directories with clips,
\* and the cookie file the copy hands to the metadata library
\* (part_000:122), which lives beside temp/.
OptionalEntries ==
  { Dir(<<"temp", "a1">>), File(<<"temp", "a1", "1_Intro.mp4">>),
    File(<<"temp", "a1", "1_Intro.mp3">>),
    Dir(<<"temp", "b2">>), File(<<"temp", "b2", "1_Intro.mp4">>),
    File(<<"cookies.txt">>) }

Parent(path) == SubSeq(path, 1, Len(path) - 1)

Trees ==
  { {Dir(<<"temp">>)} \cup S : S \in
      { T \in SUBSET OptionalEntries :
          \A e \in T : Len(e.path) > 2 => Dir(Parent(e.path)) \in T } }

\* A path parameter of the route matches one non-empty segment without "/";
\* ".." is such a segment.
Segments == {"a1", "b2", "..", "1_Intro.mp4", "1_Intro.mp3", "cookies.txt", "zz"}

\* the directory above the working directory
Outside == <<"..">>

IsDirAt(t, path) == path = <<>> \/ path = Outside \/ Dir(path) \in t
ExistsAt(t, path) == IsDirAt(t, path) \/ File(path) \in t

\* The file-system object a relative path leads to, as the kernel walks it:
\* each component is looked up in the directory reached so far, ".." leads
\* to that directory's parent.
RECURSIVE Walk(_, _, _)
Walk(t, cur, rest) ==
  IF rest = <<>> THEN [found |-> TRUE, path |-> cur]
  ELSE IF ~IsDirAt(t, cur) \/ cur = Outside THEN [found |-> FALSE, path |-> <<>>]
  ELSE LET c == Head(rest)
           next == IF c = ".." THEN (IF cur = <<>> THEN Outside ELSE Parent(cur))
                   ELSE Append(cur, c)
       IN IF ExistsAt(t, next) THEN Walk(t, next, Tail(rest))
          ELSE [found |-> FALSE, path |-> <<>>]

\* os.path.join(TEMP_DIR, temp_dir, filename)
join(temp_dir, filename) == <<"temp", temp_dir, filename>>

\* part_000:156; worker.py:247 always answers video/mp4
media_type(filename) ==
  IF variant = "worker" \/ filename \in {"1_Intro.mp4"} THEN "video/mp4" ELSE "audio/mpeg"

InitDownload ==
  /\ variant \in Variants
  /\ tree \in Trees
  /\ dl = [temp_dir |-> "", filename |-> "", status |-> 0, path |-> <<>>, media_type |-> ""]
  /\ IdlePipe
  /\ IdleServer

\* part_000:150-157, worker.py:237-249.  A path that exists is handed to
\* FileResponse, which serves a regular file and fails on anything else.
download_file ==
  \E temp_dir \in Segments, filename \in Segments :
    LET target == Walk(tree, <<>>, join(temp_dir, filename))
    IN /\ dl' = IF ~target.found
                THEN [temp_dir |-> temp_dir, filename |-> filename, status |-> 404,
                      path |-> <<>>, media_type |-> ""]
                ELSE IF File(target.path) \in tree
                THEN [temp_dir |-> temp_dir, filename |-> filename, status |-> 200,
                      path |-> target.path, media_type |-> media_type(filename)]
                ELSE [temp_dir |-> temp_dir, filename |-> filename, status |-> 500,
                      path |-> target.path, media_type |-> ""]
       /\ UNCHANGED <<variant, tree, pipeVars, serverVars>>

NextDownload == download_file

SpecDownload == InitDownload /\ [][NextDownload]_vars

\* C8: a download request is not served when temp/{temp_dir} holds no file
\* of that name, and a file that is served lies in temp/{temp_dir}: a
\* request naming ".." is never served a file.
C8_DownloadConfinedToJobDirectory ==
  dl.status = 200 =>
    /\ File(<<"temp", dl.temp_dir, dl.filename>>) \in tree
    /\ ".." \notin {dl.temp_dir, dl.filename}
    /\ Len(dl.path) = 3
    /\ SubSeq(dl.path, 1, 2) = <<"temp", dl.temp_dir>>

====
